---- MODULE Spec2Model ----
(***************************************************************************)
(* A model of the utility layer of the Business Intelligence Analyzer      *)
(* (src/utils.py): RateLimiter, CacheManager, AsyncHelpers, InputProcessor *)
(* and DataValidator, and of the agents of src/app.py: OpenAIAgent.analyze *)
(* and BusinessAnalyzer.analyze_company.                                   *)
(* Time is datetime.now() in whole seconds.                                *)
(***************************************************************************)
EXTENDS Integers, Sequences, FiniteSets, TLC

VARIABLES
    now,          \* the wall clock, datetime.now(), in seconds
    rate_limits,  \* RateLimiter.rate_limits: api -> [calls, limit, window]
    last_reset,   \* RateLimiter.last_reset
    grant,        \* per caller: the APIs for which its last can_make_call
                  \* returned True and that it has not recorded yet
    admitted,     \* per API: time -> number of calls admitted at that time
    cache,        \* CacheManager.cache: key -> [data, timestamp]
    last_set,     \* the keys set so far -> the data and the time of the most recent
                  \* set, and the number of sets
    key_in,       \* get_cache_key: the (api_name, params) of two calls
    key_out,      \* get_cache_key: the keys the two calls returned
    retry,        \* retry_async_call: the state of one call of it
    identify,     \* identify_input_type: the input of one call and its result
    validate,     \* validate_partita_iva: the input of one call and its result
    agent,        \* OpenAIAgent.analyze: the state of one call of it
    analyzer,     \* BusinessAnalyzer.analyze_company: the state of one call
    gather,       \* gather_with_timeout: the state of one call of it
    op,           \* the operation performed by the last step, with its result
    steps         \* number of steps taken so far

rlvars == <<rate_limits, last_reset, grant, admitted>>
cachevars == <<cache, last_set>>
keyvars == <<key_in, key_out>>
callvars == <<identify, validate, agent, analyzer, gather>>
vars == <<now, rate_limits, last_reset, grant, admitted, cache, last_set,
          key_in, key_out, retry, identify, validate, agent, analyzer, gather,
          op, steps>>

----------------------------------------------------------------------------
(* Bounds of the model *)

\* steps explored from the constructed objects
MaxSteps == 5
\* entries of a params dictionary
MaxParams == 2
\* largest max_retries given to retry_async_call
MaxRetries == 4
\* pieces of an input of identify_input_type
MaxTokens == 3
\* calls of analyze on one agent
MaxCalls == 2
\* tasks given to gather_with_timeout
MaxTasks == 3
\* number of concurrent asynchronous callers of the rate limiter
NCallers == 2

Callers == 1..NCallers

----------------------------------------------------------------------------
(* RateLimiter *)

\* RateLimiter.__init__: self.rate_limits
InitRateLimits ==
    [ semrush |-> [calls |-> 0, limit |-> 10,  window |-> 60],
      serper  |-> [calls |-> 0, limit |-> 100, window |-> 60],
      openai  |-> [calls |-> 0, limit |-> 50,  window |-> 60] ]

KnownApis == DOMAIN InitRateLimits

\* the API names callers pass: the known ones and one the limiter does not know
Apis == KnownApis \cup {"other"}

\* the limiter object as a value: [rate_limits, last_reset]
Self == [rate_limits |-> rate_limits, last_reset |-> last_reset]

\* _reset_counters_if_needed with "> 60" for ">= 60"
reset_counters_late(self, t) ==
    IF t - self.last_reset > 60
    THEN [ rate_limits |-> [api \in DOMAIN self.rate_limits |->
                               [self.rate_limits[api] EXCEPT !.calls = 0]],
           last_reset  |-> t ]
    ELSE self

\* _reset_counters_if_needed without "self.last_reset = now"
reset_counters_keeping_start(self, t) ==
    IF t - self.last_reset >= 60
    THEN [ rate_limits |-> [api \in DOMAIN self.rate_limits |->
                               [self.rate_limits[api] EXCEPT !.calls = 0]],
           last_reset  |-> self.last_reset ]
    ELSE self

\* _reset_counters_if_needed without zeroing the counters
reset_counters_start_only(self, t) ==
    IF t - self.last_reset >= 60
    THEN [ rate_limits |-> self.rate_limits, last_reset |-> t ]
    ELSE self

\* RateLimiter._reset_counters_if_needed at time t
reset_counters_if_needed(self, t) ==
    IF t - self.last_reset >= 60
    THEN [ rate_limits |-> [api \in DOMAIN self.rate_limits |->
                               [self.rate_limits[api] EXCEPT !.calls = 0]],
           last_reset  |-> t ]
    ELSE self

\* can_make_call with "<=" for "<"
can_make_call_inclusive(self, api_name, t) ==
    LET s == reset_counters_if_needed(self, t) IN
    IF api_name \notin DOMAIN s.rate_limits
    THEN [self |-> s, ret |-> TRUE]
    ELSE [self |-> s,
          ret |-> s.rate_limits[api_name].calls <= s.rate_limits[api_name].limit]

\* can_make_call comparing with the 'window' entry for the 'limit' entry
can_make_call_window(self, api_name, t) ==
    LET s == reset_counters_if_needed(self, t) IN
    IF api_name \notin DOMAIN s.rate_limits
    THEN [self |-> s, ret |-> TRUE]
    ELSE [self |-> s,
          ret |-> s.rate_limits[api_name].calls < s.rate_limits[api_name].window]

\* can_make_call refusing the APIs it has no limit for
can_make_call_known_only(self, api_name, t) ==
    LET s == reset_counters_if_needed(self, t) IN
    IF api_name \notin DOMAIN s.rate_limits
    THEN [self |-> s, ret |-> FALSE]
    ELSE [self |-> s,
          ret |-> s.rate_limits[api_name].calls < s.rate_limits[api_name].limit]

\* RateLimiter.can_make_call at time t: the limiter after the call and the result
can_make_call(self, api_name, t) ==
    LET s == reset_counters_if_needed(self, t) IN
    IF api_name \notin DOMAIN s.rate_limits
    THEN [self |-> s, ret |-> TRUE]
    ELSE LET current_calls == s.rate_limits[api_name].calls
             limit == s.rate_limits[api_name].limit
         IN  [self |-> s, ret |-> current_calls < limit]

\* record_call counting the call for every API
record_call_all(self, api_name) ==
    IF api_name \in DOMAIN self.rate_limits
    THEN [self EXCEPT !.rate_limits =
            [api \in DOMAIN @ |-> [@[api] EXCEPT !.calls = @ + 1]]]
    ELSE self

\* record_call that stops counting at the limit
record_call_capped(self, api_name) ==
    IF /\ api_name \in DOMAIN self.rate_limits
       /\ self.rate_limits[api_name].calls < self.rate_limits[api_name].limit
    THEN [self EXCEPT !.rate_limits[api_name].calls = @ + 1]
    ELSE self

\* RateLimiter.record_call
record_call(self, api_name) ==
    IF api_name \in DOMAIN self.rate_limits
    THEN [self EXCEPT !.rate_limits[api_name].calls = @ + 1]
    ELSE self

\* max(a, b)
max(a, b) == IF a >= b THEN a ELSE b

\* get_wait_time returning the time elapsed for the time remaining
get_wait_time_elapsed(self, api_name, t, t2) ==
    LET r == can_make_call(self, api_name, t) IN
    IF r.ret THEN [self |-> r.self, ret |-> 0]
    ELSE IF api_name \in DOMAIN r.self.rate_limits
    THEN [self |-> r.self, ret |-> max(0, t2 - r.self.last_reset)]
    ELSE [self |-> r.self, ret |-> 0]

\* RateLimiter.get_wait_time: the limiter after the call and the result;
\* datetime.now() is read at time t inside can_make_call and again at time
\* t2 for elapsed
get_wait_time(self, api_name, t, t2) ==
    LET r == can_make_call(self, api_name, t) IN
    IF r.ret THEN [self |-> r.self, ret |-> 0]
    ELSE IF api_name \in DOMAIN r.self.rate_limits
    THEN LET window == r.self.rate_limits[api_name].window
             elapsed == t2 - r.self.last_reset
         IN  [self |-> r.self, ret |-> max(0, window - elapsed)]
    ELSE [self |-> r.self, ret |-> 0]

\* a caller's loop, run without suspension at time t, n times:
\*   if limiter.can_make_call(api): limiter.record_call(api)
\* the limiter after it and the number of calls admitted, iteration by
\* iteration (n iterations are the first n \div 2 followed by the others; each
\* half is bound to its value before the next one starts)
RECURSIVE guarded_calls_loop(_, _, _, _)
guarded_calls_loop(self, api_name, t, n) ==
    IF n = 0 THEN [self |-> self, count |-> 0]
    ELSE IF n = 1
    THEN LET r == can_make_call(self, api_name, t) IN
         IF r.ret THEN [self |-> record_call(r.self, api_name), count |-> 1]
                  ELSE [self |-> r.self, count |-> 0]
    ELSE CHOOSE both \in UNION {
             { [self |-> second.self, count |-> first.count + second.count] :
                 second \in {guarded_calls_loop(first.self, api_name, t, n - (n \div 2))} } :
             first \in {guarded_calls_loop(self, api_name, t, n \div 2)} } : TRUE

\* the same loop in one step: the first can_make_call resets the counters when
\* the window is over, and calls are admitted until the limit is reached
guarded_calls(self, api_name, t, n) ==
    LET s == IF n = 0 THEN self ELSE reset_counters_if_needed(self, t) IN
    IF api_name \notin DOMAIN s.rate_limits
    THEN [self |-> s, count |-> n]
    ELSE LET room == s.rate_limits[api_name].limit - s.rate_limits[api_name].calls
             k == IF room <= 0 THEN 0 ELSE IF n < room THEN n ELSE room
         IN  [self |-> [s EXCEPT !.rate_limits[api_name].calls = @ + k],
              count |-> k]

\* the number of iterations of a caller's loop: up to or one short of the
\* limit of a known API (calls of other APIs are made one by one)
BurstSizes(api_name) ==
    IF api_name \in KnownApis
    THEN {InitRateLimits[api_name].limit - 1, InitRateLimits[api_name].limit}
    ELSE {}

\* k more calls of api admitted at time t
Admit(adm, api, t, k) ==
    IF k = 0 THEN adm
    ELSE [adm EXCEPT ![api] =
            [u \in DOMAIN @ \cup {t} |-> (IF u \in DOMAIN @ THEN @[u] ELSE 0)
                                         + (IF u = t THEN k ELSE 0)]]

NoTimes == [u \in {} |-> 0]

\* None, the value of a missing result
None == "None"

InitLimiter ==
    /\ rate_limits = InitRateLimits
    /\ last_reset = 0
    /\ grant = [c \in Callers |-> {}]
    /\ admitted = [a \in Apis |-> NoTimes]

\* one more step, while the bound allows it
Tick ==
    /\ steps < MaxSteps
    /\ steps' = steps + 1

\* caller c calls can_make_call(api)
CanMakeCall(c, api) ==
    /\ Tick
    /\ LET r == can_make_call(Self, api, now) IN
       /\ rate_limits' = r.self.rate_limits
       /\ last_reset' = r.self.last_reset
       /\ grant' = [grant EXCEPT ![c] = IF r.ret THEN @ \cup {api} ELSE @ \ {api}]
       /\ op' = [name |-> "can_make_call", api |-> api, ret |-> r.ret]
    /\ UNCHANGED <<now, admitted, cachevars, keyvars, retry, callvars>>

\* caller c calls record_call(api) for a call its can_make_call allowed
RecordCall(c, api) ==
    /\ Tick
    /\ api \in grant[c]
    /\ LET s == record_call(Self, api) IN
       /\ rate_limits' = s.rate_limits
       /\ last_reset' = s.last_reset
    /\ grant' = [grant EXCEPT ![c] = @ \ {api}]
    /\ admitted' = Admit(admitted, api, now, 1)
    /\ op' = [name |-> "record_call", api |-> api, checked |-> TRUE]
    /\ UNCHANGED <<now, cachevars, keyvars, retry, callvars>>

\* caller c calls record_call(api) with no can_make_call that allowed it
UncheckedRecordCall(c, api) ==
    /\ Tick
    /\ api \notin grant[c]
    /\ LET s == record_call(Self, api) IN
       /\ rate_limits' = s.rate_limits
       /\ last_reset' = s.last_reset
    /\ op' = [name |-> "record_call", api |-> api, checked |-> FALSE]
    /\ UNCHANGED <<now, grant, admitted, cachevars, keyvars, retry, callvars>>

\* caller c, holding no allowance for api, runs its loop n times
Burst(c, api, n) ==
    /\ Tick
    /\ api \notin grant[c]
    /\ LET r == guarded_calls(Self, api, now, n) IN
       /\ rate_limits' = r.self.rate_limits
       /\ last_reset' = r.self.last_reset
       /\ admitted' = Admit(admitted, api, now, r.count)
       /\ op' = [name |-> "burst", api |-> api, count |-> r.count]
    /\ UNCHANGED <<now, grant, cachevars, keyvars, retry, callvars>>

\* a caller calls get_wait_time(api); d seconds pass between its two readings
\* of the clock
GetWaitTime(api, d) ==
    /\ Tick
    /\ LET r == get_wait_time(Self, api, now, now + d) IN
       /\ rate_limits' = r.self.rate_limits
       /\ last_reset' = r.self.last_reset
       /\ op' = [name |-> "get_wait_time", api |-> api, ret |-> r.ret]
    /\ now' = now + d
    /\ UNCHANGED <<grant, admitted, cachevars, keyvars, retry, callvars>>

\* the time between the two readings of the clock in get_wait_time: none, and
\* two seconds
ReadDelays == {0, 2}

\* d seconds pass
Advance(d) ==
    /\ Tick
    /\ now' = now + d
    /\ op' = [name |-> "advance"]
    /\ UNCHANGED <<rlvars, cachevars, keyvars, retry, callvars>>

\* the passages of time explored: a second, and a second short of the window
RLDelays == {1, 59}

----------------------------------------------------------------------------
(* CacheManager *)

\* CacheManager.__init__: cache_duration_hours
cache_duration_hours == 24

\* CacheManager.__init__: self.cache_duration = timedelta(hours=...), in seconds
cache_duration == cache_duration_hours * 3600

\* the cache keys and the data in use
CacheKeys == {"k1", "k2"}
CacheData == {"d1", "d2"}

NoEntries == [k \in {} |-> None]

\* del self.cache[key]
Without(c, key) == [k \in DOMAIN c \ {key} |-> c[k]]

\* get with "<=" for "<"
get_inclusive(c, cache_key, t) ==
    IF cache_key \in DOMAIN c
    THEN IF t - c[cache_key].timestamp <= cache_duration
         THEN [cache |-> c, ret |-> c[cache_key].data]
         ELSE [cache |-> Without(c, cache_key), ret |-> None]
    ELSE [cache |-> c, ret |-> None]

\* get that removes every expired entry, not only the one of its key
get_sweeping(c, cache_key, t) ==
    LET swept == [k \in {j \in DOMAIN c : t - c[j].timestamp < cache_duration} |-> c[k]]
    IN  IF cache_key \in DOMAIN swept
        THEN [cache |-> swept, ret |-> c[cache_key].data]
        ELSE [cache |-> swept, ret |-> None]

\* CacheManager.get at time t: the cache after the call and the result
get(c, cache_key, t) ==
    IF cache_key \in DOMAIN c
    THEN IF t - c[cache_key].timestamp < cache_duration
         THEN [cache |-> c, ret |-> c[cache_key].data]
         ELSE [cache |-> Without(c, cache_key), ret |-> None]
    ELSE [cache |-> c, ret |-> None]

\* set that keeps the timestamp of an entry it replaces
set_keeping_timestamp(c, cache_key, data, t) ==
    [k \in DOMAIN c \cup {cache_key} |->
        IF k = cache_key
        THEN [data |-> data,
              timestamp |-> IF k \in DOMAIN c THEN c[k].timestamp ELSE t]
        ELSE c[k]]

\* CacheManager.set at time t
set(c, cache_key, data, t) ==
    [k \in DOMAIN c \cup {cache_key} |->
        IF k = cache_key THEN [data |-> data, timestamp |-> t] ELSE c[k]]

\* clear_expired with ">" for ">="
clear_expired_exclusive(c, t) ==
    LET expired_keys == {key \in DOMAIN c : t - c[key].timestamp > cache_duration}
    IN  [k \in DOMAIN c \ expired_keys |-> c[k]]

\* CacheManager.clear_expired at time t
clear_expired(c, t) ==
    LET expired_keys == {key \in DOMAIN c : t - c[key].timestamp >= cache_duration}
    IN  [k \in DOMAIN c \ expired_keys |-> c[k]]

InitCacheManager ==
    /\ cache = NoEntries
    /\ last_set = NoEntries

CacheGet(k) ==
    /\ Tick
    /\ LET r == get(cache, k, now) IN
       /\ cache' = r.cache
       /\ op' = [name |-> "get", key |-> k, ret |-> r.ret]
    /\ UNCHANGED <<now, last_set, rlvars, keyvars, retry, callvars>>

CacheSet(k, d) ==
    /\ Tick
    /\ cache' = set(cache, k, d, now)
    /\ last_set' = [j \in DOMAIN last_set \cup {k} |->
                      IF j = k
                      THEN [data |-> d, time |-> now,
                            sets |-> IF k \in DOMAIN last_set
                                     THEN last_set[k].sets + 1 ELSE 1]
                      ELSE last_set[j]]
    /\ op' = [name |-> "set", key |-> k, data |-> d]
    /\ UNCHANGED <<now, rlvars, keyvars, retry, callvars>>

ClearExpired ==
    /\ Tick
    /\ cache' = clear_expired(cache, now)
    /\ op' = [name |-> "clear_expired"]
    /\ UNCHANGED <<now, last_set, rlvars, keyvars, retry, callvars>>

\* the passages of time explored: a second, and a second short of the duration
CacheDelays == {1, cache_duration - 1}

----------------------------------------------------------------------------
(* CacheManager.get_cache_key *)

\* the parameter names in use, in the order of Python's string comparison
ParamNames == <<"gl", "num", "q">>

\* the parameter values in use: the int 20 and the str "20"
ParamValues == {[type |-> "int", value |-> "20"], [type |-> "str", value |-> "20"]}

\* a dict is the sequence of its items in insertion order, with distinct keys
Range(q) == {q[i] : i \in DOMAIN q}

Dicts ==
    {d \in UNION {[1..n -> [key : Range(ParamNames), value : ParamValues]] :
                    n \in 0..MaxParams} :
        \A i, j \in DOMAIN d : i # j => d[i].key # d[j].key}

\* the items of a dict, without their order
Items(d) == Range(d)

\* Python's k1 < k2 on the parameter names
KeyLess(k1, k2) ==
    \E i, j \in DOMAIN ParamNames :
        ParamNames[i] = k1 /\ ParamNames[j] = k2 /\ i < j

\* json.dumps without sort_keys=True: the items in insertion order
sort_keys_off(d) == d

\* sorted(items) by key, as json.dumps(..., sort_keys=True) orders them
RECURSIVE sort_keys(_)
sort_keys(d) ==
    IF d = << >> THEN << >>
    ELSE LET least == CHOOSE i \in DOMAIN d :
                         \A j \in DOMAIN d : j # i => KeyLess(d[i].key, d[j].key)
             others == [j \in 1..(Len(d) - 1) |-> IF j < least THEN d[j] ELSE d[j + 1]]
         IN  <<d[least]>> \o sort_keys(others)

\* the JSON text of a str: the text in double quotes
json_str(text) == <<"\"", text, "\"">>

\* the JSON text of a value: an int is its digits, a str is quoted
json_value(v) == IF v.type = "str" THEN json_str(v.value) ELSE <<v.value>>

\* the JSON text of the items, "key": value, separated by ", "
RECURSIVE json_items(_)
json_items(items) ==
    IF items = << >> THEN << >>
    ELSE json_str(items[1].key) \o <<": ">> \o json_value(items[1].value)
         \o (IF Len(items) > 1 THEN <<", ">> ELSE << >>)
         \o json_items(Tail(items))

\* json.dumps(params, sort_keys=True), as the sequence of the pieces of its text
json_dumps(params) == <<"{">> \o json_items(sort_keys(params)) \o <<"}">>

\* hashlib.md5(text.encode()).hexdigest(): a function of the text
md5_hexdigest(text) == <<"md5">> \o text

\* CacheManager.get_cache_key
get_cache_key(api_name, params) ==
    LET params_str == json_dumps(params)
        cache_input == <<api_name, ":">> \o params_str
    IN  md5_hexdigest(cache_input)

NoKey == << >>

\* no call of get_cache_key is under way
IdleKey ==
    /\ key_in = [i \in 1..2 |-> [api_name |-> "semrush", params |-> << >>]]
    /\ key_out = [i \in 1..2 |-> NoKey]

\* two calls of get_cache_key with any API names and params
InitKey ==
    /\ key_in \in [1..2 -> [api_name : {"semrush", "serper"}, params : Dicts]]
    /\ key_out = [i \in 1..2 |-> NoKey]

\* the i-th call returns
GetCacheKey(i) ==
    /\ key_out[i] = NoKey
    /\ key_out' = [key_out EXCEPT ![i] = get_cache_key(key_in[i].api_name, key_in[i].params)]
    /\ op' = [name |-> "get_cache_key", call |-> i]
    /\ UNCHANGED <<now, rlvars, cachevars, key_in, retry, callvars, steps>>

----------------------------------------------------------------------------
(* AsyncHelpers.retry_async_call *)

\* what func returns
FuncResults == {"r1", "r2"}

\* the delays given
RetryDelays == {1, 3}

\* last_exception = None
NoException == [type |-> "None", attempt |-> 0]

\* the exception func raises in its k-th attempt: an Exception, which the loop
\* catches, or a BaseException that is no Exception (asyncio.CancelledError),
\* which it does not
Raised(type, k) == [type |-> type, attempt |-> k]

\* "raise None" raises a TypeError
TypeError == [type |-> "TypeError", attempt |-> 0]

\* asyncio.sleep raises CancelledError when the task is cancelled
SleepCancelledError == [type |-> "CancelledError", attempt |-> 0]

\* the call as it starts: last_exception = None, at the head of the loop
retry_start(max_retries, delay) ==
    [ pc |-> "for", max_retries |-> max_retries, delay |-> delay, attempt |-> 0,
      last_exception |-> NoException, outcomes |-> << >>, invoked |-> 0,
      slept |-> << >>, result |-> None, raised |-> NoException ]

\* a loop that makes its first attempt whatever max_retries is
retry_has_next_once(r) == r.attempt = 0 \/ r.attempt < r.max_retries

\* the head of the loop: range(max_retries) has a next attempt
retry_has_next(r) == r.attempt < r.max_retries

\* "return await func(...)" starts the attempt
retry_invoke(r) == [r EXCEPT !.pc = "func", !.invoked = @ + 1]

\* func returned v: the call returns it
retry_on_return(r, v) ==
    [r EXCEPT !.pc = "returned", !.result = v,
              !.outcomes = Append(@, [kind |-> "returned", value |-> v])]

\* the except block storing only the first exception
retry_on_raise_first(r, e) ==
    LET seen == [r EXCEPT !.outcomes = Append(@, [kind |-> "raised", exception |-> e])]
        kept == IF r.last_exception = NoException THEN e ELSE r.last_exception
    IN  IF e.type = "Exception"
        THEN IF r.attempt < r.max_retries - 1
             THEN [seen EXCEPT !.last_exception = kept, !.pc = "sleep"]
             ELSE [seen EXCEPT !.last_exception = kept, !.pc = "for",
                               !.attempt = @ + 1]
        ELSE [seen EXCEPT !.pc = "raised", !.raised = e]

\* func raised e: "except Exception" stores it and sleeps or goes on to the
\* end of the loop; any other exception leaves the call
retry_on_raise(r, e) ==
    LET seen == [r EXCEPT !.outcomes = Append(@, [kind |-> "raised", exception |-> e])]
    IN  IF e.type = "Exception"
        THEN IF r.attempt < r.max_retries - 1
             THEN [seen EXCEPT !.last_exception = e, !.pc = "sleep"]
             ELSE [seen EXCEPT !.last_exception = e, !.pc = "for",
                               !.attempt = @ + 1]
        ELSE [seen EXCEPT !.pc = "raised", !.raised = e]

\* the sleep over without "delay *= 2"
retry_after_sleep_constant(r) ==
    [r EXCEPT !.slept = Append(@, r.delay), !.attempt = @ + 1, !.pc = "for"]

\* asyncio.sleep(delay) is over: delay *= 2, and the next attempt
retry_after_sleep(r) ==
    [r EXCEPT !.slept = Append(@, r.delay), !.delay = @ * 2, !.attempt = @ + 1,
              !.pc = "for"]

\* the loop is over: raise last_exception
retry_exhausted(r) ==
    [r EXCEPT !.pc = "raised",
              !.raised = IF r.last_exception = NoException THEN TypeError
                         ELSE r.last_exception]

\* no call of retry_async_call is under way
IdleRetry == retry = [pc |-> "idle"]

\* a call of retry_async_call with any max_retries and delay
InitRetry ==
    \E m \in (-1)..MaxRetries : \E d \in RetryDelays : retry = retry_start(m, d)

RetryStep(r, name) ==
    /\ retry' = r
    /\ op' = [name |-> name]
    /\ UNCHANGED <<now, rlvars, cachevars, keyvars, callvars, steps>>

RetryInvoke ==
    /\ retry.pc = "for"
    /\ retry_has_next(retry)
    /\ RetryStep(retry_invoke(retry), "invoke")

FuncReturns(v) ==
    /\ retry.pc = "func"
    /\ RetryStep(retry_on_return(retry, v), "func_returned")

FuncRaises(type) ==
    /\ retry.pc = "func"
    /\ RetryStep(retry_on_raise(retry, Raised(type, retry.invoked)), "func_raised")

SleepOver ==
    /\ retry.pc = "sleep"
    /\ RetryStep(retry_after_sleep(retry), "slept")

SleepCancelled ==
    /\ retry.pc = "sleep"
    /\ RetryStep([retry EXCEPT !.pc = "raised", !.raised = SleepCancelledError],
                 "sleep_cancelled")

RetryExhausted ==
    /\ retry.pc = "for"
    /\ ~ retry_has_next(retry)
    /\ RetryStep(retry_exhausted(retry), "exhausted")

----------------------------------------------------------------------------
(* InputProcessor.identify_input_type *)
(* A string is a sequence of characters, each a string of length 1. *)

Digits == {"0", "1", "2", "3", "4", "5", "6", "7", "8", "9"}
Letters == {"a", "c", "e", "h", "i", "m", "p", "s", "t"}
\* [a-zA-Z0-9]
Alnum == Letters \cup Digits

\* str.strip(): what lies between the first and the last character that is
\* not white space
strip(s) ==
    LET kept == {i \in 1..Len(s) : s[i] # " "}
        first == CHOOSE i \in kept : \A j \in kept : i <= j
        last == CHOOSE i \in kept : \A j \in kept : j <= i
    IN  IF kept = {} THEN << >> ELSE SubSeq(s, first, last)

\* str.startswith(prefixes)
startswith(s, prefixes) ==
    \E p \in prefixes : Len(s) >= Len(p) /\ SubSeq(s, 1, Len(p)) = p

\* s[i..j] consists of characters of class
AllIn(s, i, j, class) == \A k \in i..j : s[k] \in class

\* \b matches between the characters s[i-1] and s[i]: one of them is a word
\* character (\w) and the other is not, or is missing
word_boundary(s, i) ==
    LET word(k) == k \in 1..Len(s) /\ s[k] \in Alnum \cup {"_"}
    IN  word(i - 1) # word(i)

\* re.search(r'\b\d{11}\b', s)
piva_search(s) ==
    \E i \in 1..(Len(s) - 10) :
        /\ word_boundary(s, i)
        /\ AllIn(s, i, i + 10, Digits)
        /\ word_boundary(s, i + 11)

\* s[i..j] matches [a-zA-Z0-9][a-zA-Z0-9-]{1,61}[a-zA-Z0-9]\.[a-zA-Z]{2,},
\* the dot at position k
domain_at(s, i, j) ==
    \E k \in (i + 3)..(j - 2) :
        /\ k - i <= 63
        /\ s[i] \in Alnum
        /\ AllIn(s, i + 1, k - 2, Alnum \cup {"-"})
        /\ s[k - 1] \in Alnum
        /\ s[k] = "."
        /\ AllIn(s, k + 1, j, Letters)

\* re.match(domain_pattern, s), the pattern anchored with ^ and $
domain_match(s) == domain_at(s, 1, Len(s))

\* re.search of the domain pattern between two \b
domain_search(s) ==
    \E i \in 1..Len(s) : \E j \in i..Len(s) :
        /\ word_boundary(s, i)
        /\ domain_at(s, i, j)
        /\ word_boundary(s, j + 1)

\* the result dictionary, the confidence in tenths; extracted_data, which
\* no test reads, is left out
Classified(s, type, tenths) ==
    [original_input |-> s, input_type |-> type, confidence |-> tenths]

UrlPrefixes == {<<"h", "t", "t", "p", ":", "/", "/">>,
                <<"h", "t", "t", "p", "s", ":", "/", "/">>}

\* the tests with the 11-digit number tried before the URL prefix
identify_piva_first(user_input) ==
    LET s == strip(user_input)
    IN  IF piva_search(s) THEN Classified(s, "partita_iva", 9)
        ELSE IF startswith(s, UrlPrefixes) THEN Classified(s, "url", 10)
        ELSE IF domain_match(s) THEN Classified(s, "domain", 8)
        ELSE IF domain_search(s) THEN Classified(s, "company_with_domain", 7)
        ELSE Classified(s, "company_name", 5)

\* the default classification never assigned
identify_without_default(user_input) ==
    LET s == strip(user_input)
    IN  IF startswith(s, UrlPrefixes) THEN Classified(s, "url", 10)
        ELSE IF piva_search(s) THEN Classified(s, "partita_iva", 9)
        ELSE IF domain_match(s) THEN Classified(s, "domain", 8)
        ELSE IF domain_search(s) THEN Classified(s, "company_with_domain", 7)
        ELSE Classified(s, "unknown", 0)

identify_input_type(user_input) ==
    LET s == strip(user_input)
    IN  IF startswith(s, UrlPrefixes) THEN Classified(s, "url", 10)
        ELSE IF piva_search(s) THEN Classified(s, "partita_iva", 9)
        ELSE IF domain_match(s) THEN Classified(s, "domain", 8)
        ELSE IF domain_search(s) THEN Classified(s, "company_with_domain", 7)
        ELSE Classified(s, "company_name", 5)

\* the pieces user inputs are made of: URL schemes, an 11-digit number, one
\* more digit, a domain, a word, a space, a slash
Tokens ==
    UrlPrefixes \cup
    {<<"1", "2", "3", "4", "5", "6", "7", "8", "9", "0", "3">>,
     <<"7">>,
     <<"a", "c", "m", "e", ".", "i", "t">>,
     <<"s", "p", "a">>,
     <<" ">>,
     <<"/">>}

RECURSIVE Concat(_)
Concat(ts) == IF ts = << >> THEN << >> ELSE Head(ts) \o Concat(Tail(ts))

\* the inputs of at most MaxTokens pieces
UserInputs ==
    {Concat(ts) : ts \in UNION {[1..n -> Tokens] : n \in 0..MaxTokens}}

\* no call is under way
Idle == [pc |-> "idle"]

\* the call returns
IdentifyInputType ==
    /\ identify.pc = "call"
    /\ identify' = [pc |-> "done", user_input |-> identify.user_input,
                    result |-> identify_input_type(identify.user_input)]
    /\ op' = [name |-> "identify_input_type"]
    /\ UNCHANGED <<now, rlvars, cachevars, keyvars, retry, validate, agent,
                   analyzer, gather, steps>>

----------------------------------------------------------------------------
(* DataValidator.validate_partita_iva *)

\* re.sub(r'[^\d]', '', piva)
digits_only(piva) == SelectSeq(piva, LAMBDA ch : ch \in Digits)

DigitChars == <<"0", "1", "2", "3", "4", "5", "6", "7", "8", "9">>

\* int(ch) of a digit
int(ch) == (CHOOSE n \in 1..10 : DigitChars[n] = ch) - 1

RECURSIVE sum(_, _)
\* sum(f[i] for i in S)
sum(f, S) ==
    IF S = {} THEN 0
    ELSE LET i == CHOOSE x \in S : TRUE IN f[i] + sum(f, S \ {i})

\* range(start, 10, 2), as indices of a sequence that starts at 1
range_by_2(start) == {i + 1 : i \in {k \in start..9 : (k - start) % 2 = 0}}

\* the doubled digits added without the reduction by 9
validate_without_reduction(piva) ==
    LET p == digits_only(piva)
    IN  IF Len(p) # 11 THEN FALSE
        ELSE LET odd_sum == sum([i \in 1..11 |-> int(p[i])], range_by_2(0))
                 even_sum == sum([i \in 1..11 |-> int(p[i]) * 2], range_by_2(1))
                 total == odd_sum + even_sum
                 check_digit == (10 - (total % 10)) % 10
             IN  int(p[11]) = check_digit

\* p[i] is a digit for every i in 1..11, so that int(p[i]) is defined and the
\* branch except (ValueError, IndexError) is not taken
validate_partita_iva(piva) ==
    LET p == digits_only(piva)
    IN  IF Len(p) # 11 THEN FALSE
        ELSE LET odd_sum == sum([i \in 1..11 |-> int(p[i])], range_by_2(0))
                 digit(i) == int(p[i]) * 2
                 even_sum == sum([i \in 1..11 |->
                                     IF digit(i) < 10 THEN digit(i) ELSE digit(i) - 9],
                                 range_by_2(1))
                 total == odd_sum + even_sum
                 check_digit == (10 - (total % 10)) % 10
             IN  int(p[11]) = check_digit

\* the first nine digits of the numbers given to validate_partita_iva
PivaPrefixes ==
    {<<"1", "2", "3", "4", "5", "6", "7", "8", "9">>,
     <<"0", "0", "0", "0", "0", "0", "0", "0", "0">>,
     <<"0", "7", "6", "4", "3", "5", "2", "9", "0">>}

\* the ways a number is written: as it is, with the country code, with a
\* space in it, with one digit more, with one digit less
PivaWritings(p) ==
    {p,
     <<"I", "T">> \o p,
     SubSeq(p, 1, 5) \o <<" ">> \o SubSeq(p, 6, Len(p)),
     p \o <<"0">>,
     SubSeq(p, 1, Len(p) - 1)}

\* the inputs: the 11-digit numbers made of a prefix and any two last digits,
\* in each of their writings
PivaInputs ==
    UNION {PivaWritings(p \o <<DigitChars[a], DigitChars[b]>>) :
              p \in PivaPrefixes, a \in 1..10, b \in 1..10}

\* the call returns
ValidatePartitaIva ==
    /\ validate.pc = "call"
    /\ validate' = [pc |-> "done", piva |-> validate.piva,
                    result |-> validate_partita_iva(validate.piva)]
    /\ op' = [name |-> "validate_partita_iva"]
    /\ UNCHANGED <<now, rlvars, cachevars, keyvars, retry, identify, agent,
                   analyzer, gather, steps>>

----------------------------------------------------------------------------
(* OpenAIAgent.analyze *)

\* the JSON text of a dict, its items in insertion order
json_text(d) == <<"{">> \o json_items(d) \o <<"}">>

\* the texts a chat completion answers with: a JSON object, a JSON object
\* after some words, a JSON object cut short, and no content at all
ResponseTexts ==
    {json_text(d) : d \in Dicts}
    \cup {<<"Ecco l'analisi: ">> \o json_text(d) : d \in Dicts}
    \cup {SubSeq(json_text(d), 1, Len(json_text(d)) - 1) : d \in Dicts}
    \cup {<<None>>}

\* the exceptions chat.completions.create raises, as their str(e)
\* or the list index out of range of an empty list of choices
CreateErrors == {"Connection error.", "Rate limit reached", "list index out of range"}

\* json.loads(text): the dict whose JSON text it is, or an exception
json_loads(text) ==
    IF \E d \in Dicts : json_text(d) = text
    THEN [raised |-> FALSE, value |-> CHOOSE d \in Dicts : json_text(d) = text]
    ELSE [raised |-> TRUE, value |-> << >>]

\* the dicts analyze returns: {"error": e}, {"raw_response": text}, and the
\* value parsed from the response
ErrorDict(e) == [key |-> "error", value |-> <<e>>]
RawResponse(text) == [key |-> "raw_response", value |-> text]
Parsed(value) == [key |-> "json", value |-> value]

NoResult == [key |-> "none", value |-> << >>]

\* OpenAIAgent.__init__
NewAgent == [pc |-> "new", client |-> FALSE, calls |-> 0, requests |-> 0,
             result |-> NoResult]

\* analyze is entered
analyze_enter(a) ==
    [a EXCEPT !.pc = IF a.client THEN "create" ELSE "setup_client",
              !.calls = a.calls + 1,
              !.requests = 0,
              !.result = NoResult]

analyze_return(a, result) == [a EXCEPT !.pc = "returned", !.result = result]

\* setup_client() returns ok, and analyze goes on or returns
setup_client(a, ok) ==
    IF ok THEN [a EXCEPT !.client = TRUE, !.pc = "create"]
    ELSE analyze_return(a, ErrorDict("Impossibile configurare OpenAI client"))

\* the response returned as it is, without json.loads
create_returned_raw(a, text) ==
    analyze_return([a EXCEPT !.requests = a.requests + 1], RawResponse(text))

\* chat.completions.create has returned a response with this content
create_returned(a, text) ==
    LET parsed == json_loads(text)
    IN  analyze_return([a EXCEPT !.requests = a.requests + 1],
                       IF parsed.raised THEN RawResponse(text)
                       ELSE Parsed(parsed.value))

\* chat.completions.create has raised e
create_raised(a, e) ==
    analyze_return([a EXCEPT !.requests = a.requests + 1], ErrorDict(e))

AgentStep(a, o) ==
    /\ agent' = a
    /\ op' = o
    /\ UNCHANGED <<now, rlvars, cachevars, keyvars, retry, identify, validate,
                   analyzer, gather, steps>>

Analyze ==
    /\ agent.pc \in {"new", "returned"}
    /\ agent.calls < MaxCalls
    /\ AgentStep(analyze_enter(agent), [name |-> "analyze"])

SetupClient(ok) ==
    /\ agent.pc = "setup_client"
    /\ AgentStep(setup_client(agent, ok), [name |-> "setup_client", ok |-> ok])

CreateReturns(text) ==
    /\ agent.pc = "create"
    /\ AgentStep(create_returned(agent, text), [name |-> "create_returned", text |-> text])

CreateRaises(e) ==
    /\ agent.pc = "create"
    /\ AgentStep(create_raised(agent, e), [name |-> "create_raised", e |-> e])

----------------------------------------------------------------------------
(* BusinessAnalyzer.analyze_company *)

\* the five steps of analyze_company: the key its result is stored under, the
\* message given to progress_callback and the method of the agent it awaits
AnalysisSteps ==
    << [key |-> "semrush", message |-> "Analisi SEO e traffico con SEMRush...",
        call |-> "semrush_agent.analyze_company"],
       [key |-> "competitors", message |-> "Ricerca competitor con Serper.dev...",
        call |-> "serper_agent.search_competitors"],
       [key |-> "social", message |-> "Analisi profili social media...",
        call |-> "social_agent.find_social_profiles"],
       [key |-> "financial", message |-> "Ricerca dati finanziari...",
        call |-> "financial_agent.analyze_financial_data"],
       [key |-> "final_report", message |-> "Generazione report finale...",
        call |-> "report_agent.generate_comprehensive_report"] >>

\* what SEMRushAgent.analyze_company returns: an error dict (no domain in the
\* input, line 211, or the exception caught in fetch_semrush_data, lines
\* 202-204 and 216-217), or the domain with its analysis
SemrushResults ==
    {[error |-> "Impossibile determinare il dominio dall'input fornito"],
     [error |-> "ConnectionError"],
     [domain |-> "acme.it", analysis |-> "a1"]}

\* what the other agents return
AgentResults == {[analysis |-> "a1"], [analysis |-> "a2"]}

\* the exceptions an awaited agent raises, as their str(e)
AgentErrors == {"boom"}

\* the inputs of analyze_company: the text, whether it starts with http:// or
\* https:// and then the netloc less 'www.', '.com' and '.it', and the first
\* run of 11 digits in it
AnalyzerInputs ==
    {[text |-> "https://www.acme.it", url |-> TRUE, name |-> "acme", digits |-> ""],
     [text |-> "acme.it", url |-> FALSE, name |-> "", digits |-> ""],
     [text |-> "Acme spa 12345678903", url |-> FALSE, name |-> "", digits |-> "12345678903"]}

\* BusinessAnalyzer._extract_company_name
extract_company_name(user_input) ==
    IF user_input.url THEN user_input.name
    ELSE IF user_input.digits # "" THEN "Azienda da P.IVA"
    ELSE user_input.text

\* BusinessAnalyzer._extract_partita_iva
extract_partita_iva(user_input) == user_input.digits

\* d[key] = value
dict_set(d, key, value) == [k \in (DOMAIN d) \cup {key} |-> IF k = key THEN value ELSE d[k]]

\* analyze_company is entered: results as of lines 576-582
analyze_company_enter(user_input, progress_callback) ==
    [pc |-> "step", step |-> 1,
     user_input |-> user_input,
     progress_callback |-> progress_callback,
     results |-> [timestamp |-> now, input |-> user_input.text, company_name |-> "", website |-> "",
                  analysis_results |-> [k \in {} |-> << >>]],
     trace |-> << >>]

Event(a, kind) ==
    [kind |-> kind, step |-> a.step, stored |-> DOMAIN a.results.analysis_results]

\* the step begins: the message to progress_callback, if there is one, and
\* the call of the agent, which is awaited
step_start(a) ==
    LET told == IF a.progress_callback
                THEN Append(a.trace, Event(a, "progress_callback"))
                ELSE a.trace
        named == IF a.step = 2
                 THEN [a EXCEPT !.results.company_name = extract_company_name(a.user_input)]
                 ELSE a
    IN  [named EXCEPT !.pc = "await",
                      !.trace = Append(told, Event(named, "call"))]

\* the value the awaited call returned is stored in results
store_result(a, value) ==
    LET returned == [a EXCEPT !.trace = Append(a.trace, Event(a, "returned"))]
        key == AnalysisSteps[a.step].key
    IN  IF a.step = 5
        THEN [returned EXCEPT !.results = dict_set(returned.results, "final_report", value)]
        ELSE LET stored == [returned EXCEPT !.results.analysis_results =
                                dict_set(returned.results.analysis_results, key, value)]
             IN  IF a.step = 1 /\ "domain" \in DOMAIN value
                 THEN [stored EXCEPT !.results.website = value.domain]
                 ELSE stored

\* the result of the awaited call dropped instead of stored
step_returned_unstored(a, value) ==
    IF a.step = 5 THEN [store_result(a, value) EXCEPT !.pc = "returned"]
    ELSE [a EXCEPT !.pc = "step", !.step = a.step + 1,
                   !.trace = Append(a.trace, Event(a, "returned"))]

\* an error dict from the first step ends the call as an exception would
step_returned_aborting(a, value) ==
    IF a.step = 5 THEN [store_result(a, value) EXCEPT !.pc = "returned"]
    ELSE IF a.step = 1 /\ "error" \in DOMAIN value
         THEN [store_result(a, value) EXCEPT !.pc = "returned"]
         ELSE [store_result(a, value) EXCEPT !.pc = "step", !.step = a.step + 1]

\* the awaited call has returned value
step_returned(a, value) ==
    IF a.step = 5 THEN [store_result(a, value) EXCEPT !.pc = "returned"]
    ELSE [store_result(a, value) EXCEPT !.pc = "step", !.step = a.step + 1]

\* the exception noted in results and the next step begun
step_raised_continuing(a, e) ==
    [a EXCEPT !.pc = IF a.step = 5 THEN "returned" ELSE "step",
              !.step = IF a.step = 5 THEN 5 ELSE a.step + 1,
              !.results = dict_set(a.results, "error", e),
              !.trace = Append(a.trace, Event(a, "raised"))]

\* the awaited call has raised e: except Exception, lines 634-637
step_raised(a, e) ==
    [a EXCEPT !.pc = "returned",
              !.results = dict_set(a.results, "error", e),
              !.trace = Append(a.trace, Event(a, "raised"))]

AnalyzerStep(a, name) ==
    /\ analyzer' = a
    /\ op' = [name |-> name]
    /\ UNCHANGED <<now, rlvars, cachevars, keyvars, retry, identify, validate,
                   agent, gather, steps>>

StepStart ==
    /\ analyzer.pc = "step"
    /\ AnalyzerStep(step_start(analyzer), "step_start")

StepReturns(value) ==
    /\ analyzer.pc = "await"
    /\ value \in IF analyzer.step = 1 THEN SemrushResults ELSE AgentResults
    /\ AnalyzerStep(step_returned(analyzer, value), "step_returned")

StepRaises(e) ==
    /\ analyzer.pc = "await"
    /\ AnalyzerStep(step_raised(analyzer, e), "step_raised")

----------------------------------------------------------------------------
(* AsyncHelpers.gather_with_timeout *)

\* the state of a task: pending, or finished with the value it returned or
\* the exception it raised, or cancelled
Pending == [kind |-> "pending", of |-> ""]
Returned(v) == [kind |-> "value", of |-> v]
RaisedIn(e) == [kind |-> "exception", of |-> e]
Cancelled == [kind |-> "exception", of |-> "CancelledError"]
NoneEntry == [kind |-> "value", of |-> None]

TaskValues == {"r1", "r2"}
TaskErrors == {"ValueError"}

\* gather_with_timeout(tasks) is entered: wait_for awaits the gather of tasks
gather_start(n) ==
    [pc |-> "wait_for", tasks |-> [i \in 1..n |-> Pending], finished |-> << >>,
     result |-> << >>]

\* task i finishes with entry, the others going on
task_done(g, i, entry) ==
    [g EXCEPT !.tasks[i] = entry,
              !.finished = Append(g.finished, [task |-> i, entry |-> entry])]

\* a task that raises has the tasks still pending cancelled
task_raised_cancelling(g, i, e) ==
    [g EXCEPT !.tasks = [j \in DOMAIN g.tasks |->
                            IF j = i THEN RaisedIn(e)
                            ELSE IF g.tasks[j] = Pending THEN Cancelled
                            ELSE g.tasks[j]],
              !.finished = Append(g.finished, [task |-> i, entry |-> RaisedIn(e)])]

\* task i raises e: with return_exceptions=True the exception is its result
task_raised(g, i, e) == task_done(g, i, RaisedIn(e))

\* every task has finished: gather returns their results in the order of tasks
gather_done(g) == [g EXCEPT !.pc = "returned", !.result = g.tasks]

\* a timeout that keeps the entries of the tasks that had finished
gather_timeout_partial(g) ==
    [g EXCEPT !.pc = "timed_out",
              !.tasks = [j \in DOMAIN g.tasks |->
                            IF g.tasks[j] = Pending THEN Cancelled ELSE g.tasks[j]],
              !.result = [j \in DOMAIN g.tasks |->
                             IF g.tasks[j] = Pending THEN NoneEntry ELSE g.tasks[j]]]

\* the timeout expires first: wait_for cancels the gather and its tasks and
\* raises TimeoutError; [None] * len(tasks) is returned
gather_timeout(g) ==
    [g EXCEPT !.pc = "timed_out",
              !.tasks = [j \in DOMAIN g.tasks |->
                            IF g.tasks[j] = Pending THEN Cancelled ELSE g.tasks[j]],
              !.result = [j \in DOMAIN g.tasks |-> NoneEntry]]

GatherStep(g, o) ==
    /\ gather' = g
    /\ op' = o
    /\ UNCHANGED <<now, rlvars, cachevars, keyvars, retry, identify, validate,
                   agent, analyzer, steps>>

TaskReturns(i, v) ==
    /\ gather.pc = "wait_for"
    /\ i \in DOMAIN gather.tasks
    /\ gather.tasks[i] = Pending
    /\ GatherStep(task_done(gather, i, Returned(v)), [name |-> "task_returned", task |-> i])

TaskRaises(i, e) ==
    /\ gather.pc = "wait_for"
    /\ i \in DOMAIN gather.tasks
    /\ gather.tasks[i] = Pending
    /\ GatherStep(task_raised(gather, i, e), [name |-> "task_raised", task |-> i])

GatherDone ==
    /\ gather.pc = "wait_for"
    /\ \A i \in DOMAIN gather.tasks : gather.tasks[i] # Pending
    /\ GatherStep(gather_done(gather), [name |-> "gather_done"])

TimeoutExpires ==
    /\ gather.pc = "wait_for"
    /\ \E i \in DOMAIN gather.tasks : gather.tasks[i] = Pending
    /\ GatherStep(gather_timeout(gather), [name |-> "timeout"])

----------------------------------------------------------------------------
(* The objects as constructed, and their use *)

InitObjects ==
    /\ now = 0
    /\ InitLimiter
    /\ InitCacheManager
    /\ op = [name |-> "init"]
    /\ steps = 0

\* no call of the functions that are modelled one call at a time
IdleCalls ==
    /\ identify = Idle
    /\ validate = Idle
    /\ agent = Idle
    /\ analyzer = Idle
    /\ gather = Idle

Init == InitObjects /\ IdleKey /\ IdleRetry /\ IdleCalls

\* the objects as constructed, and two calls of get_cache_key
InitKeySpec == InitObjects /\ InitKey /\ IdleRetry /\ IdleCalls

\* the objects as constructed, and a call of retry_async_call
InitRetrySpec == InitObjects /\ IdleKey /\ InitRetry /\ IdleCalls

\* the objects as constructed, and a call of identify_input_type with any
\* input
InitIdentifySpec ==
    /\ InitObjects /\ IdleKey /\ IdleRetry
    /\ \E s \in UserInputs : identify = [pc |-> "call", user_input |-> s]
    /\ validate = Idle
    /\ agent = Idle
    /\ analyzer = Idle
    /\ gather = Idle

\* the objects as constructed, and a call of validate_partita_iva with any
\* input
InitValidateSpec ==
    /\ InitObjects /\ IdleKey /\ IdleRetry
    /\ identify = Idle
    /\ \E s \in PivaInputs : validate = [pc |-> "call", piva |-> s]
    /\ agent = Idle
    /\ analyzer = Idle
    /\ gather = Idle

\* the objects as constructed, and an agent as constructed
InitAgentSpec ==
    /\ InitObjects /\ IdleKey /\ IdleRetry
    /\ identify = Idle
    /\ validate = Idle
    /\ agent = NewAgent
    /\ analyzer = Idle
    /\ gather = Idle

\* the objects as constructed, and a call of analyze_company with any input,
\* with or without progress_callback
InitAnalyzerSpec ==
    /\ InitObjects /\ IdleKey /\ IdleRetry
    /\ identify = Idle
    /\ validate = Idle
    /\ agent = Idle
    /\ \E u \in AnalyzerInputs : \E cb \in BOOLEAN :
           analyzer = analyze_company_enter(u, cb)
    /\ gather = Idle

\* the objects as constructed, and a call of gather_with_timeout with any
\* number of tasks
InitGatherSpec ==
    /\ InitObjects /\ IdleKey /\ IdleRetry
    /\ identify = Idle
    /\ validate = Idle
    /\ agent = Idle
    /\ analyzer = Idle
    /\ \E n \in 0..MaxTasks : gather = gather_start(n)

\* one caller, which records only the calls can_make_call allowed
NextSeq ==
    \/ \E a \in Apis : CanMakeCall(1, a)
    \/ \E a \in Apis : RecordCall(1, a)
    \/ \E a \in Apis : \E n \in BurstSizes(a) : Burst(1, a, n)
    \/ \E d \in RLDelays : Advance(d)

SpecSeq == Init /\ [][NextSeq]_vars

\* several asynchronous callers, each recording only the calls its own
\* can_make_call allowed; their steps interleave
NextConc ==
    \/ \E c \in Callers : \E a \in Apis : CanMakeCall(c, a)
    \/ \E c \in Callers : \E a \in Apis : RecordCall(c, a)
    \/ \E c \in Callers : \E a \in Apis : \E n \in BurstSizes(a) : Burst(c, a, n)
    \/ \E d \in RLDelays : Advance(d)

SpecConc == Init /\ [][NextConc]_vars

\* one caller using the methods of the limiter in any order
NextFree ==
    \/ \E a \in Apis : CanMakeCall(1, a)
    \/ \E a \in Apis : RecordCall(1, a)
    \/ \E a \in Apis : UncheckedRecordCall(1, a)
    \/ \E a \in Apis : \E n \in BurstSizes(a) : Burst(1, a, n)
    \/ \E d \in RLDelays : Advance(d)

SpecFree == Init /\ [][NextFree]_vars

\* one caller using the methods of the limiter, get_wait_time among them, in
\* any order; its loops run as many times as the limit
NextWait ==
    \/ \E a \in Apis : CanMakeCall(1, a)
    \/ \E a \in Apis : RecordCall(1, a)
    \/ \E a \in Apis : UncheckedRecordCall(1, a)
    \/ \E a \in KnownApis : Burst(1, a, InitRateLimits[a].limit)
    \/ \E a \in Apis : \E d \in ReadDelays : GetWaitTime(a, d)
    \/ \E d \in RLDelays : Advance(d)

SpecWait == Init /\ [][NextWait]_vars

\* the cache used in any order
NextCache ==
    \/ \E k \in CacheKeys : CacheGet(k)
    \/ \E k \in CacheKeys : \E d \in CacheData : CacheSet(k, d)
    \/ ClearExpired
    \/ \E d \in CacheDelays : Advance(d)

SpecCache == Init /\ [][NextCache]_vars

\* two calls of get_cache_key
NextKey == \E i \in 1..2 : GetCacheKey(i)

SpecKey == InitKeySpec /\ [][NextKey]_vars

\* one call of retry_async_call, func returning or raising in each attempt
NextRetry ==
    \/ RetryInvoke
    \/ \E v \in FuncResults : FuncReturns(v)
    \/ \E type \in {"Exception", "BaseException"} : FuncRaises(type)
    \/ SleepOver
    \/ SleepCancelled
    \/ RetryExhausted

SpecRetry == InitRetrySpec /\ [][NextRetry]_vars

\* one call of identify_input_type
SpecIdentify == InitIdentifySpec /\ [][IdentifyInputType]_vars

\* one call of validate_partita_iva
SpecValidate == InitValidateSpec /\ [][ValidatePartitaIva]_vars

\* calls of analyze on one agent, one after the other
NextAgent ==
    \/ Analyze
    \/ \E ok \in BOOLEAN : SetupClient(ok)
    \/ \E text \in ResponseTexts : CreateReturns(text)
    \/ \E e \in CreateErrors : CreateRaises(e)

SpecAgent == InitAgentSpec /\ [][NextAgent]_vars

\* one call of analyze_company, each awaited agent returning or raising
NextAnalyzer ==
    \/ StepStart
    \/ \E value \in SemrushResults \cup AgentResults : StepReturns(value)
    \/ \E e \in AgentErrors : StepRaises(e)

SpecAnalyzer == InitAnalyzerSpec /\ [][NextAnalyzer]_vars

\* one call of gather_with_timeout, its tasks finishing in any order
NextGather ==
    \/ \E i \in 1..MaxTasks : \E v \in TaskValues : TaskReturns(i, v)
    \/ \E i \in 1..MaxTasks : \E e \in TaskErrors : TaskRaises(i, e)
    \/ GatherDone
    \/ TimeoutExpires

SpecGather == InitGatherSpec /\ [][NextGather]_vars

\* the one-step loop is the iterated loop
GuardedCallsIsLoop ==
    \A a \in Apis : \A n \in BurstSizes(a) \cup {0, 1, 2} :
        guarded_calls(Self, a, now, n) = guarded_calls_loop(Self, a, now, n)

----------------------------------------------------------------------------
(* Properties of the RateLimiter *)

RECURSIVE SumOver(_, _)
SumOver(f, S) ==
    IF S = {} THEN 0
    ELSE LET u == CHOOSE x \in S : TRUE IN f[u] + SumOver(f, S \ {u})

\* the calls of api admitted in the 60 seconds that start at time t
AdmittedIn60(api, t) ==
    SumOver(admitted[api], {u \in DOMAIN admitted[api] : t <= u /\ u < t + 60})

\* some call of api was admitted before the running window started
AdmittedBeforeWindow(api) ==
    \E u \in DOMAIN admitted[api] : u < last_reset

\* C1: with one caller that records a call only after can_make_call allowed
\* it, the counter of every known API stays within its limit, in every window.
C1_CounterWithinLimit ==
    \A a \in KnownApis : rate_limits[a].calls <= rate_limits[a].limit

\* a counter at its limit, and a can_make_call refused because of it
C1_Witness ==
    /\ op.name = "can_make_call"
    /\ op.api \in KnownApis
    /\ op.ret = FALSE
    /\ rate_limits[op.api].calls = rate_limits[op.api].limit

\* C2: a can_make_call made 60 seconds or more after the last reset sets every
\* counter to 0 and starts the window at the current time; one made earlier
\* changes neither the counters nor the start of the window.
C2_ResetEvery60 ==
    [][ op'.name = "can_make_call" =>
          IF now - last_reset >= 60
          THEN /\ \A a \in KnownApis : rate_limits'[a].calls = 0
               /\ last_reset' = now
          ELSE /\ rate_limits' = rate_limits
               /\ last_reset' = last_reset ]_vars

\* a can_make_call that has just reset a counter that held calls
C2_Witness ==
    /\ op.name = "can_make_call"
    /\ last_reset = now
    /\ now >= 60
    /\ \E a \in KnownApis : AdmittedBeforeWindow(a) /\ rate_limits[a].calls = 0

\* C3 as claimed: in every interval of 60 seconds the calls admitted for a
\* known API are at most its limit.
C3_SlidingWindow ==
    \A a \in KnownApis : \A t \in DOMAIN admitted[a] :
        AdmittedIn60(a, t) <= rate_limits[a].limit

\* C3 amended: the window is fixed, so an interval of 60 seconds that spans a
\* reset holds at most twice the limit.
C3_TwiceLimitInAny60 ==
    \A a \in KnownApis : \A t \in DOMAIN admitted[a] :
        AdmittedIn60(a, t) <= 2 * rate_limits[a].limit

\* an interval of 60 seconds holding twice the limit
C3_Witness ==
    \E a \in KnownApis : \E t \in DOMAIN admitted[a] :
        AdmittedIn60(a, t) = 2 * rate_limits[a].limit

\* C4 as claimed: with concurrent callers the counter never exceeds the limit.
C4_NoConcurrencyHazard ==
    \A a \in KnownApis : ~ (rate_limits[a].calls > rate_limits[a].limit)

\* C4 amended: callers that checked before any of them recorded are all
\* allowed, so the counter exceeds the limit by at most the number of
\* callers less one.
C4_ExceedsByCallers ==
    \A a \in KnownApis :
        rate_limits[a].calls <= rate_limits[a].limit + (NCallers - 1)

\* every caller was allowed the last call of the window
C4_Witness ==
    \E a \in KnownApis :
        /\ rate_limits[a].calls = rate_limits[a].limit + (NCallers - 1)
        /\ op.name = "record_call"
        /\ op.api = a

\* C5: record_call(a) changes the counter of a and nothing else, and within a
\* window can_make_call(b) is decided by the counter and the limit of b.
C5_PerApiCounters ==
    [][ /\ op'.name = "record_call" =>
            /\ last_reset' = last_reset
            /\ \A b \in KnownApis :
                 /\ b # op'.api => rate_limits'[b] = rate_limits[b]
                 /\ rate_limits'[b].limit = rate_limits[b].limit
                 /\ rate_limits'[b].window = rate_limits[b].window
        /\ ( /\ op'.name = "can_make_call"
             /\ op'.api \in KnownApis
             /\ now - last_reset < 60 ) =>
            op'.ret = (rate_limits[op'.api].calls < rate_limits[op'.api].limit)
      ]_vars

\* a record_call for one API while another API holds calls
C5_Witness ==
    /\ op.name = "record_call"
    /\ op.api \in KnownApis
    /\ rate_limits[op.api].calls > 0
    /\ \E b \in KnownApis \ {op.api} : rate_limits[b].calls > 0

----------------------------------------------------------------------------
(* Properties of the CacheManager *)

\* key k was set and less than cache_duration has passed since its last set
Fresh(k) ==
    /\ k \in DOMAIN last_set
    /\ now - last_set[k].time < cache_duration

\* key k was set and cache_duration or more has passed since its last set
Stale(k) ==
    /\ k \in DOMAIN last_set
    /\ now - last_set[k].time >= cache_duration

\* C6: a get(k) made less than cache_duration after the most recent set of k
\* returns the data of that set.
C6_FreshGetReturnsLastSet ==
    [][ (op'.name = "get" /\ Fresh(op'.key)) =>
            op'.ret = last_set[op'.key].data ]_vars

\* a get that returns the data of a set that replaced an earlier one, after
\* the duration of the earlier one is over
C6_Witness ==
    /\ op.name = "get"
    /\ Fresh(op.key)
    /\ op.ret = last_set[op.key].data
    /\ last_set[op.key].sets >= 2
    /\ now >= cache_duration

\* C7: a get(k) made cache_duration or more after the set of k returns None
\* and deletes the entry; until a get(k), a clear_expired or a set(k) the
\* expired entry stays in the cache as it is.
C7_LazyExpiry ==
    [][ /\ (op'.name = "get" /\ Stale(op'.key)) =>
            /\ op'.ret = None
            /\ op'.key \notin DOMAIN cache'
        /\ \A k \in DOMAIN cache :
            ( /\ now - cache[k].timestamp >= cache_duration
              /\ ~ (op'.name = "get" /\ op'.key = k)
              /\ ~ (op'.name = "set" /\ op'.key = k)
              /\ op'.name # "clear_expired" ) =>
            (k \in DOMAIN cache' /\ cache'[k] = cache[k])
      ]_vars

\* a get that found an expired entry and deleted it, after the entry had
\* stayed in the cache through other operations
C7_Witness ==
    /\ op.name = "get"
    /\ Stale(op.key)
    /\ op.ret = None
    /\ op.key \notin DOMAIN cache
    /\ now - last_set[op.key].time > cache_duration

\* C8: a get of an absent key returns None and leaves the cache as it is, and
\* a get of any key leaves the entries of the other keys as they are.
C8_GetTouchesOnlyItsKey ==
    [][ op'.name = "get" =>
          /\ op'.key \notin DOMAIN cache => (op'.ret = None /\ cache' = cache)
          /\ \A j \in CacheKeys \ {op'.key} :
               /\ j \in DOMAIN cache' <=> j \in DOMAIN cache
               /\ j \in DOMAIN cache => cache'[j] = cache[j]
      ]_vars

\* a get that missed while another key held an expired entry
C8_Witness ==
    /\ op.name = "get"
    /\ op.ret = None
    /\ \E j \in DOMAIN cache :
         /\ j # op.key
         /\ now - cache[j].timestamp >= cache_duration

----------------------------------------------------------------------------
(* Properties of get_cache_key *)

\* both calls of get_cache_key have returned
BothKeys == key_out[1] # NoKey /\ key_out[2] # NoKey

\* the two calls had the same API name and params with the same items
SameKeyInput ==
    /\ key_in[1].api_name = key_in[2].api_name
    /\ Items(key_in[1].params) = Items(key_in[2].params)

\* C9: two calls of get_cache_key with the same API name and params holding
\* the same key/value pairs return the same key, whatever the insertion
\* order of the params.
C9_KeyIgnoresInsertionOrder ==
    (BothKeys /\ SameKeyInput) => key_out[1] = key_out[2]

\* the same items inserted in two different orders
C9_Witness ==
    /\ BothKeys
    /\ SameKeyInput
    /\ key_in[1].params # key_in[2].params
    /\ key_out[1] = key_out[2]

----------------------------------------------------------------------------
(* Properties of retry_async_call *)

\* the outcome of the last attempt made
LastOutcome == retry.outcomes[Len(retry.outcomes)]

\* every attempt made so far raised
AllRaised ==
    \A i \in DOMAIN retry.outcomes : retry.outcomes[i].kind = "raised"

\* C10: with max_retries >= 1 func is invoked at most max_retries times, an
\* attempt starting only when the one before is over; the call returns the
\* result of the first attempt that succeeds, and when all max_retries
\* attempts fail it raises the exception of the last one.
C10_RetryAttempts ==
    (retry.pc # "idle" /\ retry.max_retries >= 1) =>
        /\ retry.invoked <= retry.max_retries
        /\ Len(retry.outcomes) = (IF retry.pc = "func" THEN retry.invoked - 1
                                                       ELSE retry.invoked)
        /\ \A i \in DOMAIN retry.outcomes :
             retry.outcomes[i].kind = "returned" =>
                /\ i = Len(retry.outcomes)
                /\ retry.pc = "returned"
                /\ retry.result = retry.outcomes[i].value
        /\ retry.pc = "returned" =>
             (retry.outcomes # << >> /\ LastOutcome.kind = "returned")
        /\ (retry.pc = "raised" /\ Len(retry.outcomes) = retry.max_retries /\ AllRaised) =>
             retry.raised = LastOutcome.exception

\* every attempt of several raised an Exception, and the call raised the last
C10_Witness ==
    /\ retry.pc = "raised"
    /\ retry.max_retries >= 2
    /\ Len(retry.outcomes) = retry.max_retries
    /\ \A i \in DOMAIN retry.outcomes :
         /\ retry.outcomes[i].kind = "raised"
         /\ retry.outcomes[i].exception.type = "Exception"
    /\ retry.raised = Raised("Exception", retry.max_retries)

----------------------------------------------------------------------------
(* Properties of InputProcessor.identify_input_type *)

\* C11: the tests are tried in the order URL prefix, standalone 11-digit
\* number, whole-string domain, domain embedded in text, company name, and the
\* input is given the type of the first test it matches, never that of a
\* later one.
C11_FirstMatchingTest ==
    identify.pc = "done" =>
        LET s == strip(identify.user_input)
            type == identify.result.input_type
            url == startswith(s, UrlPrefixes)
            piva == piva_search(s)
            whole == domain_match(s)
            embedded == domain_search(s)
        IN  /\ url => type = "url"
            /\ ~ url /\ piva => type = "partita_iva"
            /\ ~ url /\ ~ piva /\ whole => type = "domain"
            /\ ~ url /\ ~ piva /\ ~ whole /\ embedded => type = "company_with_domain"
            /\ ~ url /\ ~ piva /\ ~ whole /\ ~ embedded => type = "company_name"

\* an http URL that contains an 11-digit number, classified as a URL
C11_Witness ==
    /\ identify.pc = "done"
    /\ startswith(strip(identify.user_input), UrlPrefixes)
    /\ piva_search(strip(identify.user_input))
    /\ identify.result.input_type = "url"

\* C12 as claimed: the input type is one of the four classes url,
\* partita_iva, domain, company_name.
C12_FourClasses ==
    identify.pc = "done" =>
        identify.result.input_type \in {"url", "partita_iva", "domain", "company_name"}

\* C12 amended: the input type is one of five classes, a text with a domain
\* embedded in it being of the class company_with_domain.
C12_FiveClasses ==
    identify.pc = "done" =>
        identify.result.input_type \in
            {"url", "partita_iva", "domain", "company_with_domain", "company_name"}

\* a text that contains a domain, classified as company_with_domain
C12_Witness ==
    /\ identify.pc = "done"
    /\ ~ domain_match(strip(identify.user_input))
    /\ domain_search(strip(identify.user_input))
    /\ identify.result.input_type = "company_with_domain"

----------------------------------------------------------------------------
(* Properties of DataValidator.validate_partita_iva *)

\* the digits of the input, in their order, as numbers
DigitsOf(s) ==
    LET at == {i \in 1..Len(s) : s[i] \in Digits}
        nth(k) == CHOOSE i \in at : Cardinality({j \in at : j < i}) = k - 1
    IN  [k \in 1..Cardinality(at) |-> CHOOSE n \in 0..9 : DigitChars[n + 1] = s[nth(k)]]

\* twice the digit, reduced by 9 when the doubled value is 10 or more
Doubled(d) == IF 2 * d >= 10 THEN 2 * d - 9 ELSE 2 * d

\* the input has exactly 11 digits d1..d11 and d11 is the check digit of d1..d10
ValidPartitaIva(s) ==
    LET d == DigitsOf(s)
    IN  /\ Len(d) = 11
        /\ LET T == d[1] + d[3] + d[5] + d[7] + d[9]
                     + Doubled(d[2]) + Doubled(d[4]) + Doubled(d[6])
                     + Doubled(d[8]) + Doubled(d[10])
           IN  d[11] = (10 - (T % 10)) % 10

\* C13: validate_partita_iva returns true exactly when the input, its
\* non-digits removed, has 11 digits of which the last is the check digit of
\* the first ten; in every other case it returns false.
C13_ChecksumExactly ==
    validate.pc = "done" =>
        /\ validate.result \in BOOLEAN
        /\ validate.result = ValidPartitaIva(validate.piva)

\* a number written with non-digits and with a doubled digit of 10 or more,
\* accepted
C13_Witness ==
    /\ validate.pc = "done"
    /\ validate.result = TRUE
    /\ Len(validate.piva) > 11
    /\ DigitsOf(validate.piva)[10] >= 5

----------------------------------------------------------------------------
(* Properties of OpenAIAgent.analyze *)

\* the text is the JSON text of some object
IsJson(text) == \E d \in Dicts : text = <<"{">> \o json_items(d) \o <<"}">>

\* what analyze returns is what the claim says for the way the call went
ReturnsAsClaimed ==
    /\ op.name \in {"setup_client", "create_raised", "create_returned"}
    /\ op.name = "setup_client" => agent.result.key = "error"
    /\ op.name = "create_raised" => agent.result = ErrorDict(op.e)
    /\ op.name = "create_returned" /\ IsJson(op.text) =>
           /\ agent.result.key = "json"
           /\ json_text(agent.result.value) = op.text
    /\ op.name = "create_returned" /\ ~ IsJson(op.text) =>
           agent.result = RawResponse(op.text)

\* C15 as claimed: analyze returns the error, the parsed value or the raw
\* response, and exactly one LLM request is made in every call.
C15_ExactlyOneRequest ==
    agent.pc = "returned" => ReturnsAsClaimed /\ agent.requests = 1

\* C15 amended: analyze returns the error, the parsed value or the raw
\* response; one LLM request is made in a call that has a client, and none in
\* a call that cannot configure one.
C15_AtMostOneRequest ==
    agent.pc = "returned" =>
        /\ ReturnsAsClaimed
        /\ agent.requests = IF op.name = "setup_client" THEN 0 ELSE 1

\* a call that could not configure a client and returned the error without a
\* request
C15_Witness ==
    /\ agent.pc = "returned"
    /\ op.name = "setup_client"
    /\ agent.result.key = "error"
    /\ agent.requests = 0

----------------------------------------------------------------------------
(* Properties of BusinessAnalyzer.analyze_company *)

\* the events of the trace that begin a step: the message to
\* progress_callback and the call of the agent
Begins(e) == e.kind \in {"progress_callback", "call"}

\* C14: the steps SEMRush analysis, competitor search, social analysis,
\* financial analysis, report generation begin in that order, a step and its
\* progress_callback message only after the step before it has returned, and
\* the report step only once the results of the four steps before it are
\* stored in analysis_results.
C14_SequentialFixedOrder ==
    analyzer.pc # "idle" =>
        LET t == analyzer.trace
            calls == SelectSeq(t, LAMBDA e : e.kind = "call")
        IN  /\ \A n \in 1..Len(calls) : calls[n].step = n
            /\ \A i \in 1..Len(t) :
                   Begins(t[i]) /\ t[i].step > 1 =>
                       \E j \in 1..(i - 1) :
                           t[j].kind = "returned" /\ t[j].step = t[i].step - 1
            /\ \A i \in 1..Len(t) :
                   Begins(t[i]) /\ AnalysisSteps[t[i].step].key = "final_report" =>
                       t[i].stored = {"semrush", "competitors", "social", "financial"}

\* a call with a progress_callback that went through the five steps
C14_Witness ==
    /\ analyzer.pc = "returned"
    /\ analyzer.progress_callback
    /\ Len(analyzer.trace) = 15
    /\ analyzer.trace[15].kind = "returned"
    /\ "final_report" \in DOMAIN analyzer.results

----------------------------------------------------------------------------
(* Properties of AsyncHelpers.gather_with_timeout *)

\* C16: when the tasks finish before the timeout, gather_with_timeout returns
\* one entry per task, in the order of the tasks whatever the order they
\* finished in; the entry of a task is the value it returned or the exception
\* it raised, and a task that raises leaves the other tasks running.
C16_OneEntryPerTask ==
    gather.pc = "returned" =>
        /\ Len(gather.result) = Len(gather.tasks)
        /\ Len(gather.finished) = Len(gather.tasks)
        /\ \A i \in DOMAIN gather.tasks :
               \E n \in DOMAIN gather.finished :
                   /\ gather.finished[n].task = i
                   /\ gather.finished[n].entry = gather.result[i]

\* the first task raised, the others finished after it, the last one first,
\* and each has its own entry
C16_Witness ==
    /\ gather.pc = "returned"
    /\ Len(gather.tasks) >= 3
    /\ gather.finished[1].task = 1
    /\ gather.finished[2].task = 3
    /\ gather.result[1].kind = "exception"
    /\ gather.result[2] = Returned("r2")
    /\ gather.result[3] = Returned("r1")

----------------------------------------------------------------------------
(* Properties of the RateLimiter: the end of a refusal, record_call,
   get_wait_time, and the APIs without a limit *)

\* the calls of api admitted before the running window started
AdmittedBefore(api) ==
    SumOver(admitted[api], {u \in DOMAIN admitted[api] : u < last_reset})

\* C17: a can_make_call for a known API that is made 60 seconds or more after
\* the last reset returns True, whatever was refused before it; and a
\* can_make_call is refused only less than 60 seconds after the last reset, so
\* that a refusal ends within one window.
C17_RefusalEndsWithWindow ==
    [][ op'.name = "can_make_call" /\ op'.api \in KnownApis =>
          /\ now - last_reset >= 60 => op'.ret = TRUE
          /\ op'.ret = FALSE => now' - last_reset' < 60 ]_vars

\* an API that had reached its limit is allowed again by the first
\* can_make_call of the next window
C17_Witness ==
    /\ op.name = "can_make_call"
    /\ op.api \in KnownApis
    /\ op.ret = TRUE
    /\ last_reset = now
    /\ AdmittedBefore(op.api) = rate_limits[op.api].limit

\* C18: record_call adds exactly 1 to the counter of a known API, also when
\* the counter is at or over the limit, and changes no other counter and not
\* last_reset; the counters are zeroed and last_reset moves only in steps
\* that call can_make_call or get_wait_time.
C18_RecordCallOnlyCounts ==
    [][ /\ op'.name = "record_call" =>
             /\ last_reset' = last_reset
             /\ DOMAIN rate_limits' = DOMAIN rate_limits
             /\ \A a \in DOMAIN rate_limits :
                    rate_limits'[a] =
                        IF a = op'.api
                        THEN [rate_limits[a] EXCEPT !.calls = rate_limits[a].calls + 1]
                        ELSE rate_limits[a]
        /\ (\/ last_reset' # last_reset
            \/ \E a \in KnownApis : rate_limits'[a].calls < rate_limits[a].calls) =>
             op'.name \in {"can_make_call", "get_wait_time", "burst"} ]_vars

\* a record_call that took a counter beyond its limit
C18_Witness ==
    /\ op.name = "record_call"
    /\ op.api \in KnownApis
    /\ rate_limits[op.api].calls = rate_limits[op.api].limit + 1

\* C19: get_wait_time(api) returns 0 exactly when can_make_call(api) is true at
\* its return; otherwise it returns the time left until 60 seconds have
\* elapsed since the last reset, which is positive and at most 60.
C19_WaitTimeIsRemainder ==
    op.name = "get_wait_time" =>
        /\ op.ret = 0 <=> can_make_call(Self, op.api, now).ret
        /\ op.ret # 0 =>
               /\ 0 < op.ret
               /\ op.ret <= 60
               /\ op.ret = last_reset + 60 - now

\* a get_wait_time for an API at its limit, 59 seconds before the window ends
C19_Witness ==
    /\ op.name = "get_wait_time"
    /\ op.api \in KnownApis
    /\ rate_limits[op.api].calls >= rate_limits[op.api].limit
    /\ op.ret = 59

\* C20: for an API name that is not semrush, serper or openai, can_make_call
\* returns True, get_wait_time returns 0, and record_call changes no counter
\* and adds no entry to rate_limits.
C20_UnknownApiNeverLimited ==
    [][ op'.name \in {"can_make_call", "get_wait_time", "record_call"}
        /\ op'.api \notin {"semrush", "serper", "openai"} =>
          /\ op'.name = "can_make_call" => op'.ret = TRUE
          /\ op'.name = "get_wait_time" => op'.ret = 0
          /\ op'.name = "record_call" => rate_limits' = rate_limits ]_vars

\* a get_wait_time of 0 for an unknown API while a known API is at its limit
C20_Witness ==
    /\ op.name = "get_wait_time"
    /\ op.api \notin KnownApis
    /\ op.ret = 0
    /\ \E a \in KnownApis : rate_limits[a].calls = rate_limits[a].limit

----------------------------------------------------------------------------
(* Properties of CacheManager.clear_expired *)

\* C21: clear_expired removes exactly the entries whose age is cache_duration
\* or more and leaves every other entry as it is; right after it, a get of any
\* key still in the cache is a hit that returns the data of the entry.
C21_ClearExpiredSameBoundary ==
    [][ op'.name = "clear_expired" =>
          /\ DOMAIN cache' =
                 {k \in DOMAIN cache : now - cache[k].timestamp < cache_duration}
          /\ \A k \in DOMAIN cache' : cache'[k] = cache[k]
          /\ \A k \in DOMAIN cache' :
                 /\ get(cache', k, now').ret = cache'[k].data
                 /\ get(cache', k, now').cache = cache' ]_vars

\* a clear_expired that removed an entry of age cache_duration and kept one a
\* second younger
C21_Witness ==
    /\ op.name = "clear_expired"
    /\ \E k \in DOMAIN last_set :
           /\ now - last_set[k].time = cache_duration
           /\ k \notin DOMAIN cache
    /\ \E k \in DOMAIN cache : now - cache[k].timestamp = cache_duration - 1

----------------------------------------------------------------------------
(* Properties of AsyncHelpers.retry_async_call: the sleeps, and max_retries <= 0 *)

\* C22: with the delay d given, the sleep after the k-th failed attempt lasts
\* d * 2^(k-1); a sleep follows a failed attempt only when an attempt is
\* left, so that a call that ended after n attempts slept n - 1 times and did
\* not sleep after its last attempt.
C22_ExponentialBackoff ==
    (retry.pc # "idle" /\ retry.max_retries >= 1) =>
        /\ \E d \in RetryDelays :
               /\ retry.delay = d * 2 ^ Len(retry.slept)
               /\ \A k \in DOMAIN retry.slept : retry.slept[k] = d * 2 ^ (k - 1)
        /\ retry.pc = "sleep" =>
               /\ retry.invoked < retry.max_retries
               /\ Len(retry.slept) = retry.invoked - 1
               /\ LastOutcome.kind = "raised"
        /\ (retry.pc \in {"returned", "raised"} /\ retry.invoked >= 1) =>
               Len(retry.slept) = retry.invoked - 1

\* every attempt of three or more raised, and the call slept d, 2d, ... between
\* them and raised right after the last
C22_Witness ==
    /\ retry.pc = "raised"
    /\ retry.max_retries >= 3
    /\ retry.invoked = retry.max_retries
    /\ AllRaised
    /\ Len(retry.slept) = retry.max_retries - 1
    /\ retry.slept[2] = 2 * retry.slept[1]

\* C23: with max_retries <= 0 func is never invoked and no value is returned:
\* the loop has no attempt to make, and the call ends raising, the TypeError
\* of "raise None", no attempt having raised anything.
C23_NoAttemptsRaises ==
    (retry.pc # "idle" /\ retry.max_retries <= 0) =>
        /\ retry.invoked = 0
        /\ retry.outcomes = << >>
        /\ retry.last_exception = NoException
        /\ retry.result = None
        /\ retry.pc \in {"for", "raised"}
        /\ retry.pc = "for" => ~ retry_has_next(retry)
        /\ retry.pc = "raised" => retry.raised = TypeError

\* a call with max_retries <= 0 that has raised without an attempt
C23_Witness ==
    /\ retry.pc = "raised"
    /\ retry.max_retries <= 0
    /\ retry.invoked = 0
    /\ retry.raised = TypeError

----------------------------------------------------------------------------
(* Properties of AsyncHelpers.gather_with_timeout: the timeout *)

\* C24: the list gather_with_timeout returns has as many entries as there are
\* tasks; when the timeout expires with a task still pending, every entry is
\* None, also the entries of the tasks that had finished.
C24_TimeoutReturnsAllNone ==
    gather.pc \in {"returned", "timed_out"} =>
        /\ Len(gather.result) = Len(gather.tasks)
        /\ gather.pc = "timed_out" =>
               \A i \in DOMAIN gather.tasks : gather.result[i] = NoneEntry

\* a timeout after one task had returned a value and another had raised, with
\* a third still pending: three entries, all None
C24_Witness ==
    /\ gather.pc = "timed_out"
    /\ Len(gather.tasks) >= 3
    /\ \E n \in DOMAIN gather.finished : gather.finished[n].entry.kind = "value"
    /\ \E n \in DOMAIN gather.finished : gather.finished[n].entry.kind = "exception"
    /\ \A i \in DOMAIN gather.result : gather.result[i] = NoneEntry

----------------------------------------------------------------------------
(* Properties of BusinessAnalyzer.analyze_company: the steps that fail *)

\* the keys under which the steps before step k store their results
KeysBefore(k) == {AnalysisSteps[j].key : j \in 1..(k - 1)}

\* C25: when a step raises, analyze_company returns at once, with
\* results["error"] set and with the analysis_results of the steps completed
\* before, as they were; nothing more happens after the return; and the
\* results returned hold "final_report" exactly when they do not hold "error".
C25_ErrorEndsTheCall ==
    [][ /\ analyzer.pc # "returned"
        /\ op'.name = "step_raised" =>
               /\ analyzer'.pc = "returned"
               /\ "error" \in DOMAIN analyzer'.results
               /\ analyzer'.results.analysis_results = analyzer.results.analysis_results
               /\ DOMAIN analyzer'.results.analysis_results = KeysBefore(analyzer.step)
        /\ analyzer'.pc = "returned" =>
               ("final_report" \in DOMAIN analyzer'.results
                    <=> "error" \notin DOMAIN analyzer'.results) ]_vars

\* a call whose fourth step raised: returned with the error, the results of
\* three steps and no report
C25_Witness ==
    /\ analyzer.pc = "returned"
    /\ "error" \in DOMAIN analyzer.results
    /\ DOMAIN analyzer.results.analysis_results = {"semrush", "competitors", "social"}
    /\ "final_report" \notin DOMAIN analyzer.results

\* the SEMRush step has returned an error dict, which is stored
SemrushFailed ==
    /\ "semrush" \in DOMAIN analyzer.results.analysis_results
    /\ "error" \in DOMAIN analyzer.results.analysis_results["semrush"]

\* the calls of the agents so far, in the order they were made
CallsMade == SelectSeq(analyzer.trace, LAMBDA ev : ev.kind = "call")

\* C26: a SEMRush step that returns an error dict does not end
\* analyze_company: the dict is stored under analysis_results["semrush"],
\* website stays empty, and the call goes on with the competitor, social,
\* financial and report steps in this order; it ends either with the final
\* report after all five calls or because a later step raised.
C26_SemrushErrorDoesNotAbort ==
    SemrushFailed =>
        /\ analyzer.results.analysis_results["semrush"] \in SemrushResults
        /\ analyzer.results.website = ""
        /\ analyzer.step >= 2
        /\ Len(CallsMade) = IF analyzer.pc = "step" THEN analyzer.step - 1 ELSE analyzer.step
        /\ \A i \in DOMAIN CallsMade :
               /\ CallsMade[i].step = i
               /\ i >= 2 => "semrush" \in CallsMade[i].stored
        /\ analyzer.pc = "returned" =>
               \/ /\ "final_report" \in DOMAIN analyzer.results
                  /\ "error" \notin DOMAIN analyzer.results
                  /\ Len(CallsMade) = 5
                  /\ DOMAIN analyzer.results.analysis_results = KeysBefore(5)
               \/ /\ "error" \in DOMAIN analyzer.results
                  /\ analyzer.trace[Len(analyzer.trace)].kind = "raised"
                  /\ analyzer.trace[Len(analyzer.trace)].step >= 2

\* a call that ended with the final report although the SEMRush step had
\* returned the error dict of an HTTP exception: five calls, website empty
C26_Witness ==
    /\ SemrushFailed
    /\ analyzer.results.analysis_results["semrush"] = [error |-> "ConnectionError"]
    /\ analyzer.pc = "returned"
    /\ "final_report" \in DOMAIN analyzer.results
    /\ analyzer.results.website = ""
    /\ Len(CallsMade) = 5

====
